---- MODULE Spec2Model ----
(***************************************************************************)
(* A model of pymarketstore's client.py: the query specification (Params), *)
(* the query request builder (_build_query), the write payload encoder     *)
(* (_build_data), the client operations (query, write, list_symbols,       *)
(* destroy, server_version) and the stream endpoint derivation (stream).   *)
(*                                                                         *)
(* Python values are tagged records, so that values of different Python    *)
(* types can be compared.  A pandas Timestamp is the pair (sec, ns) with   *)
(* 0 <= ns < 10^9: its int64 attribute `value` is sec * 10^9 + ns, which   *)
(* does not fit the model checker's integers.  An exception is the record  *)
(* Raise(type, message); a normal return is Ok(value).                     *)
(***************************************************************************)
EXTENDS Integers, Sequences, FiniteSets, TLC

VARIABLES
    PY2,        \* six.PY2: the interpreter is Python 2 (fixed for a run)
    param,      \* SpecInit, SpecParams: the Params object the caller holds, or Nothing
    ctor,       \* SpecInit, SpecParams: the bucket key param had when constructed
    last,       \* the last call made by the caller and what it raised/returned
    pool,       \* SpecQuery: the Params objects the caller holds, in order
    nsets,      \* SpecQuery: number of set() calls made so far
    request,    \* SpecQuery: what the last _build_query call was given and returned
    recarray,   \* SpecData: the record batch handed to _build_data (its bucket key is last.tbk)
    payload,    \* SpecData: what _build_data returned for recarray
    endpoint,   \* Client.endpoint
    derived,    \* SpecStream: the endpoint Client.stream handed to StreamConn
    wire        \* SpecClient: outbound calls and log records of the last operation

vars == <<PY2, param, ctor, last, pool, nsets, request, recarray, payload,
          endpoint, derived, wire>>

-----------------------------------------------------------------------------
(* Python values and results *)

None == [t |-> "None"]
PyInt(i) == [t |-> "int", i |-> i]
PyStr(s) == [t |-> "str", s |-> s]
PyBool(b) == [t |-> "bool", b |-> b]
PyList(xs) == [t |-> "list", items |-> xs]
PyTuple(xs) == [t |-> "tuple", items |-> xs]
PySet(S) == [t |-> "set", elems |-> S]
Timestamp(sec, ns) == [t |-> "Timestamp", sec |-> sec, ns |-> ns]

Ok(v) == [exc |-> "", val |-> v]
Raise(e, m) == [exc |-> e, msg |-> m]
Nothing == [t |-> "nothing"]
\* The receiver itself, as the value of `return self`.
Self == [t |-> "self"]

EmptyDict == [k \in {} |-> None]

\* All orders in which the elements of a finite set can be iterated.
Orders(S) == {sq \in [1..Cardinality(S) -> S] : \A e \in S : \E i \in DOMAIN sq : sq[i] = e}

-----------------------------------------------------------------------------
(* isiterable, get_timestamp *)

\* isiterable that knows lists only.
isiterableList(something) == something.t = "list"

isiterable(something) == something.t \in {"list", "tuple", "set"}

\* pd.Timestamp(<str>): the calendar strings of the model and their instants.
ParseTimestamp(s) ==
    CASE s = "1970-01-01 00:00:01" -> Ok(Timestamp(1, 0))
      [] s = "2020-01-01 00:00:00.5" -> Ok(Timestamp(1577836800, 500000000))
      [] s = "2020-01-01 00:00:00.99999988" -> Ok(Timestamp(1577836800, 999999880))
      [] s = "2020-01-01 00:00:00.999999999" -> Ok(Timestamp(1577836800, 999999999))
      [] OTHER -> Raise("ValueError", "could not convert string to Timestamp")

get_timestamp(value) ==
    IF value = None THEN Ok(None)
    ELSE IF value.t = "int" THEN Ok(Timestamp(value.i, 0))
    ELSE IF value.t = "Timestamp" THEN Ok(value)
    ELSE IF value.t = "str" THEN ParseTimestamp(value.s)
    ELSE Raise("TypeError", "Cannot convert input to Timestamp")

-----------------------------------------------------------------------------
(* Params *)

\* Names hasattr() finds on every Params instance through its class.
ClassAttrs == {"__init__", "set", "__repr__", "__class__", "__dict__", "__doc__", "__module__"}

\* The instance attributes Params.__init__ assigns.
Fields == {"tbk", "key_category", "start", "end", "limit", "limit_from_start", "functions"}

PyParams(attrs) == [t |-> "Params", attrs |-> attrs]

\* The items of an iterable in iteration order; a set iterates in `order`.
Items(x, order) == IF x.t = "set" THEN order ELSE x.items

RECURSIVE JoinStr(_, _)
\* sep.join(items) for str items.
JoinStr(sep, items) ==
    IF items = <<>> THEN ""
    ELSE IF Len(items) = 1 THEN items[1].s
    ELSE items[1].s \o sep \o JoinStr(sep, Tail(items))

\* str.join: TypeError on a non-str item.
Join(sep, items) ==
    IF \E i \in DOMAIN items : items[i].t # "str"
    THEN Raise("TypeError", "sequence item: expected str instance")
    ELSE Ok(JoinStr(sep, items))

\* Params.__init__; `order` is the order in which a set of symbols iterates.
ParamsInit(symbols, order, timeframe, attrgroup, start, end, limit, limit_from_start) ==
    LET syms == IF ~isiterable(symbols) THEN <<symbols>> ELSE Items(symbols, order)
        joined == Join(",", syms)
        s == get_timestamp(start)
        e == get_timestamp(end)
    IN  IF joined.exc # "" THEN joined
        ELSE IF s.exc # "" THEN s
        ELSE IF e.exc # "" THEN e
        ELSE Ok(PyParams(
                 [k \in Fields |->
                    CASE k = "tbk" -> PyStr(joined.val \o "/" \o timeframe \o "/" \o attrgroup)
                      [] k = "key_category" -> None
                      [] k = "start" -> s.val
                      [] k = "end" -> e.val
                      [] k = "limit" -> limit
                      [] k = "limit_from_start" -> limit_from_start
                      [] k = "functions" -> None]))

hasattr(self, key) == key \in (DOMAIN self.attrs) \cup ClassAttrs

setattr(self, key, val) ==
    PyParams([k \in (DOMAIN self.attrs) \cup {key} |-> IF k = key THEN val ELSE self.attrs[k]])

\* self.set(key, val): the object after the call and what the call returned or
\* raised.  An instance attribute named "set" shadows the method, and calling
\* it fails unless it is callable (no value of the model is).
ParamsSet(self, key, val) ==
    IF "set" \in DOMAIN self.attrs
    THEN [self |-> self, res |-> Raise("TypeError", "object is not callable")]
    ELSE IF ~hasattr(self, key)
    THEN [self |-> self, res |-> Raise("AttributeError", "")]
    ELSE IF key \in {"start", "end"}
    THEN LET ts == get_timestamp(val)
         IN  IF ts.exc # "" THEN [self |-> self, res |-> ts]
             ELSE [self |-> setattr(self, key, ts.val), res |-> Ok(Self)]
    ELSE [self |-> setattr(self, key, val), res |-> Ok(Self)]

-----------------------------------------------------------------------------
(* _build_query *)

NANOS == 1000000000

\* Bits of precision of a Python float (an IEEE 754 double).
FloatBits == 53

RECURSIVE Log2Floor(_)
\* The exponent e with 2^e <= n < 2^(e+1), for n >= 1.
Log2Floor(n) == IF n <= 1 THEN 0 ELSE 1 + Log2Floor(n \div 2)

\* int(value / 10 ** 9) in Python 3, for value = sec * 10^9 + ns >= 0: the
\* quotient is rounded to the nearest float, then truncated.  The floats in
\* [sec, sec + 1) are 2^(e + 1 - FloatBits) apart, e = Log2Floor(sec), so the
\* quotient rounds up to sec + 1 when (10^9 - ns) / 10^9 is at most half of that.
TrueDivInt(sec, ns) ==
    LET e == Log2Floor(sec)
        k == FloatBits - e      \* half the spacing is 2^(-k)
    IN  IF sec >= 1 /\ k <= 30 /\ (NANOS - ns) <= NANOS \div (2 ^ k)
        THEN sec + 1
        ELSE sec

\* value / 10 ** 9 in Python 2 is the floor division of two ints.
FloorDivInt(sec, ns) == sec

\* int(param.start.value / (10 ** 9))
EpochSeconds(ts, py2) == IF py2 THEN FloorDivInt(ts.sec, ts.ns) ELSE TrueDivInt(ts.sec, ts.ns)

\* int(<str>) for the strings of the model.
ParseInt(s) ==
    CASE s = "10" -> Ok(10)
      [] s = "0" -> Ok(0)
      [] OTHER -> Raise("ValueError", "invalid literal for int() with base 10")

\* int(x)
int(x) ==
    CASE x.t = "int" -> Ok(x.i)
      [] x.t = "bool" -> Ok(IF x.b THEN 1 ELSE 0)
      [] x.t = "str" -> ParseInt(x.s)
      [] OTHER -> Raise("TypeError", "int() argument must be a string or a number")

\* bool(x)
bool(x) ==
    CASE x.t = "bool" -> x.b
      [] x.t = "int" -> x.i # 0
      [] x.t = "str" -> x.s # ""
      [] x.t \in {"list", "tuple"} -> x.items # <<>>
      [] x.t = "set" -> x.elems # {}
      [] x.t = "None" -> FALSE
      [] OTHER -> TRUE

Entry(present, key, val) == IF present THEN key :> val ELSE EmptyDict

\* The body of the loop of _build_query: the request dict of one Params, or
\* the exception int(param.limit) raises.
BuildReq(p, py2) ==
    LET a == p.attrs
        lim == IF a["limit"] # None THEN int(a["limit"]) ELSE Ok(0)
    IN  IF lim.exc # "" THEN lim
        ELSE Ok(("destination" :> a["tbk"])
                @@ Entry(a["key_category"] # None, "key_category", a["key_category"])
                @@ Entry(a["start"] # None, "epoch_start", PyInt(EpochSeconds(a["start"], py2)))
                @@ Entry(a["end"] # None, "epoch_end", PyInt(EpochSeconds(a["end"], py2)))
                @@ Entry(a["limit"] # None, "limit_record_count", PyInt(lim.val))
                @@ Entry(a["limit_from_start"] # None, "limit_from_start",
                         PyBool(bool(a["limit_from_start"])))
                @@ Entry(a["functions"] # None, "functions", a["functions"]))

\* _build_query(params): params is one Params or a list/tuple of them.
BuildQuery(params, py2) ==
    LET ps == IF ~isiterable(params) THEN <<params>> ELSE params.items
        reqs == [i \in DOMAIN ps |-> BuildReq(ps[i], py2)]
    IN  IF \E i \in DOMAIN ps : reqs[i].exc # ""
        THEN reqs[CHOOSE i \in DOMAIN ps :
                    reqs[i].exc # "" /\ \A j \in DOMAIN ps : reqs[j].exc # "" => i <= j]
        ELSE Ok([requests |-> [i \in DOMAIN ps |-> reqs[i].val]])

-----------------------------------------------------------------------------
(* Bounds and inputs *)

MaxSymbols == 2     \* longest collection of symbols given to Params
MaxSets == 2        \* most set() calls in a run
MaxParams == 2      \* most Params objects held, and the longest list queried

Symbols == {"TSLA", "AAPL"}
Timeframes == {"1Min", "1D"}
AttrGroup == "OHLCV"

RECURSIVE SeqsUpTo(_, _)
\* The sequences over S of length at most n.
SeqsUpTo(S, n) ==
    IF n = 0 THEN {<<>>}
    ELSE LET shorter == SeqsUpTo(S, n - 1)
         IN  shorter \cup {Append(sq, x) : sq \in shorter, x \in S}

Range(sq) == {sq[i] : i \in DOMAIN sq}
NoRepeat(sq) == \A i, j \in DOMAIN sq : sq[i] = sq[j] => i = j
StrItems(sq) == [i \in DOMAIN sq |-> PyStr(sq[i])]

\* What a caller may pass as `symbols`: one symbol, a list or tuple of
\* symbols, a set of symbols (written in some order), or a stray number.
\* PySet keeps the elements as written; the set iterates in any order.
SymbolInputs ==
    {PyStr(s) : s \in Symbols} \cup {PyInt(5)}
    \cup {PyList(StrItems(sq)) : sq \in SeqsUpTo(Symbols, MaxSymbols)}
    \cup {PyTuple(StrItems(sq)) : sq \in SeqsUpTo(Symbols, MaxSymbols)}
    \cup {PySet(StrItems(sq)) : sq \in {q \in SeqsUpTo(Symbols, MaxSymbols) : NoRepeat(q)}}

\* The iteration orders of a symbols argument (one, unless it is a set).
IterOrders(symbols) ==
    IF symbols.t = "set" THEN Orders(Range(symbols.elems)) ELSE {<<>>}

\* Values a caller may pass for a time.
TimeInputs ==
    {None, PyInt(0), PyInt(1577836800),
     PyStr("1970-01-01 00:00:01"), PyStr("2020-01-01 00:00:00.5"),
     PyStr("2020-01-01 00:00:00.99999988"), PyStr("2020-01-01 00:00:00.999999999"),
     PyStr("yesterday-ish")}

-----------------------------------------------------------------------------
(* Variables not used by a specification keep these values. *)

IdleParams == param = Nothing /\ ctor = Nothing
IdleQuery == pool = <<>> /\ nsets = 0 /\ request = Nothing
IdleData == recarray = Nothing /\ payload = Nothing
IdleClient == endpoint = "" /\ derived = Nothing /\ wire = <<>>

-----------------------------------------------------------------------------
(* SpecInit: the Params constructor *)

\* p = Params(symbols, timeframe, attrgroup, start=start) in a fresh caller:
\* when the constructor raises, there is no object.
New(symbols, order, timeframe, start) ==
    LET r == ParamsInit(symbols, order, timeframe, AttrGroup, start, None, None, None)
    IN  /\ last' = [op |-> "Params", symbols |-> symbols, timeframe |-> timeframe,
                    attrgroup |-> AttrGroup, start |-> start,
                    res |-> IF r.exc = "" THEN Ok(Self) ELSE r]
        /\ param' = IF r.exc = "" THEN r.val ELSE Nothing
        /\ ctor' = IF r.exc = "" THEN [tbk |-> r.val.attrs["tbk"]] ELSE Nothing
        /\ UNCHANGED <<PY2, pool, nsets, request, recarray, payload, endpoint, derived, wire>>

InitInit ==
    /\ PY2 = FALSE /\ last = Nothing
    /\ IdleParams /\ IdleQuery /\ IdleData /\ IdleClient

NextInit ==
    \E symbols \in SymbolInputs, timeframe \in Timeframes, start \in TimeInputs :
        \E order \in IterOrders(symbols) : New(symbols, order, timeframe, start)

SpecInit == InitInit /\ [][NextInit]_vars

(* C4 *)

RECURSIVE CommaList(_)
\* The strings of a non-empty sequence of str values, separated by commas.
CommaList(items) ==
    IF Len(items) = 1 THEN items[1].s
    ELSE CommaList(SubSeq(items, 1, Len(items) - 1)) \o "," \o items[Len(items)].s

BucketKeyOf(items) == PyStr(CommaList(items) \o "/" \o last.timeframe \o "/" \o last.attrgroup)

Constructed == last # Nothing /\ last.op = "Params" /\ last.res.exc = ""

\* C4 as stated: the bucket key of a scalar symbol s is s/timeframe/attrgroup,
\* and the bucket key of a non-empty list, tuple or set of symbols is the
\* symbols joined by ',' in the order they were given, then /timeframe/attrgroup.
C4_KeyInGivenOrder ==
    Constructed =>
        /\ last.symbols.t = "str" => param.attrs["tbk"] = BucketKeyOf(<<last.symbols>>)
        /\ last.symbols.t \in {"list", "tuple"} /\ last.symbols.items # <<>>
              => param.attrs["tbk"] = BucketKeyOf(last.symbols.items)
        /\ last.symbols.t = "set" /\ last.symbols.elems # <<>>
              => param.attrs["tbk"] = BucketKeyOf(last.symbols.elems)

\* C4 as amended: as above for a scalar, a list and a tuple; for a set the
\* symbols are joined in the order in which the set iterates, which is some
\* order of its elements.  Construction from str symbols and a time that
\* converts does not fail.
C4_KeyInIterationOrder ==
    /\ Constructed =>
        /\ last.symbols.t = "str" => param.attrs["tbk"] = BucketKeyOf(<<last.symbols>>)
        /\ last.symbols.t \in {"list", "tuple"} /\ last.symbols.items # <<>>
              => param.attrs["tbk"] = BucketKeyOf(last.symbols.items)
        /\ last.symbols.t = "set" /\ last.symbols.elems # <<>>
              => \E order \in Orders(Range(last.symbols.elems)) :
                     param.attrs["tbk"] = BucketKeyOf(order)
    /\ last # Nothing /\ last.op = "Params"
         /\ last.symbols.t \in {"str", "list", "tuple", "set"}
         /\ last.start # PyStr("yesterday-ish")
         => last.res.exc = ""

\* A set of two symbols was joined in another order than the one written.
C4_Witness ==
    /\ Constructed /\ last.symbols.t = "set" /\ Len(last.symbols.elems) = 2
    /\ param.attrs["tbk"] # BucketKeyOf(last.symbols.elems)
    /\ param.attrs["tbk"] = PyStr("AAPL,TSLA/1D/OHLCV")

-----------------------------------------------------------------------------
(* SpecParams: set() calls on one Params object *)

SetKeys == Fields \cup {"set", "__repr__", "volume"}
SetVals == {None, PyInt(5), PyStr("2020-01-01 00:00:00.5"), PyStr("GOOG/1D/TICK")}

\* param.set(key, val)
Set(key, val) ==
    LET r == ParamsSet(param, key, val)
    IN  /\ nsets < MaxSets
        /\ nsets' = nsets + 1
        /\ param' = r.self
        /\ last' = [op |-> "set", key |-> key, val |-> val, before |-> param, res |-> r.res]
        /\ UNCHANGED <<PY2, ctor, pool, request, recarray, payload, endpoint, derived, wire>>

InitParams ==
    /\ PY2 = FALSE /\ last = Nothing
    /\ \E symbols \in {PyStr("TSLA"), PyList(<<PyStr("TSLA"), PyStr("AAPL")>>)},
          start \in {None, PyInt(1577836800)} :
          LET r == ParamsInit(symbols, <<>>, "1Min", AttrGroup, start, None, None, None)
          IN  param = r.val /\ ctor = [tbk |-> r.val.attrs["tbk"]]
    /\ IdleQuery /\ IdleData /\ IdleClient

NextParams == \E key \in SetKeys, val \in SetVals : Set(key, val)

SpecParams == InitParams /\ [][NextParams]_vars

\* C5: after any set() calls, whether they return or raise, the bucket key of
\* the object is the one computed at construction.
C5_BucketKeyImmutable == param.attrs["tbk"] = ctor.tbk

\* The value get_timestamp is to store for a time given as None, as an integer
\* number of epoch seconds, or as the calendar string of SetVals.
NormalizedTime(val) ==
    CASE val = None -> None
      [] val.t = "int" -> Timestamp(val.i, 0)
      [] val = PyStr("2020-01-01 00:00:00.5") -> Timestamp(1577836800, 500000000)
      [] OTHER -> Nothing

\* C6: set(key, val) with a key that is no declared field raises the
\* unknown-field error and changes nothing (no field is created); with a
\* declared key it stores val in that field and changes no other field, and
\* for start and end it stores val normalized through get_timestamp.
C6_SetContract ==
    last # Nothing /\ last.op = "set" =>
        IF last.key \notin Fields
        THEN last.res.exc = "AttributeError" /\ param = last.before
        ELSE (last.key \in {"start", "end"} => NormalizedTime(last.val) # Nothing) =>
             /\ last.res.exc = ""
             /\ DOMAIN param.attrs = DOMAIN last.before.attrs
             /\ \A f \in DOMAIN param.attrs :
                    f # last.key => param.attrs[f] = last.before.attrs[f]
             /\ param.attrs[last.key] =
                    IF last.key \in {"start", "end"} THEN NormalizedTime(last.val) ELSE last.val

-----------------------------------------------------------------------------
(* SpecQuery: Params objects are made, mutated and handed to _build_query *)

\* The values the data model allows for each optional field of a query.
QueryFieldVals(key) ==
    CASE key = "key_category" -> {None, PyStr("candle")}
      [] key = "start" -> {None, PyInt(1577836800), PyStr("2020-01-01 00:00:00.5"),
                           PyStr("2020-01-01 00:00:00.999999999")}
      [] key = "end" -> {None, PyInt(0), PyStr("2020-01-01 00:00:00.99999988")}
      [] key = "limit" -> {None, PyInt(0), PyInt(5)}
      [] key = "limit_from_start" -> {None, PyBool(TRUE), PyBool(FALSE)}
      [] key = "functions" -> {None, PyList(<<"avg(Close)">>)}

QueryKeys == Fields \ {"tbk"}

\* pool.append(Params(symbols, "1Min", "OHLCV", start=start))
QNew(symbols, start) ==
    LET r == ParamsInit(symbols, <<>>, "1Min", AttrGroup, start, None, None, None)
    IN  /\ Len(pool) < MaxParams
        /\ r.exc = ""
        /\ pool' = Append(pool, r.val)
        /\ request' = Nothing
        /\ UNCHANGED <<PY2, param, ctor, last, nsets, recarray, payload, endpoint, derived, wire>>

\* pool[i].set(key, val)
QSet(i, key, val) ==
    LET r == ParamsSet(pool[i], key, val)
    IN  /\ nsets < MaxSets
        /\ nsets' = nsets + 1
        /\ pool' = [pool EXCEPT ![i] = r.self]
        /\ request' = Nothing
        /\ UNCHANGED <<PY2, param, ctor, last, recarray, payload, endpoint, derived, wire>>

\* What the caller may hand to _build_query: one of its Params objects, or a
\* list or tuple of them in any order.
BuildInputs ==
    {pool[i] : i \in DOMAIN pool}
    \cup {PyList([k \in DOMAIN ix |-> pool[ix[k]]]) : ix \in SeqsUpTo(DOMAIN pool, MaxParams)}
    \cup {PyTuple(<<pool[i]>>) : i \in DOMAIN pool}

\* Client._build_query(params)
QBuild(params) ==
    /\ request' = [params |-> params, res |-> BuildQuery(params, PY2)]
    /\ UNCHANGED <<PY2, param, ctor, last, pool, nsets, recarray, payload, endpoint, derived, wire>>

InitQuery ==
    /\ PY2 \in BOOLEAN /\ last = Nothing
    /\ IdleParams /\ IdleQuery /\ IdleData /\ IdleClient

NextQuery ==
    \/ \E symbols \in {PyStr("TSLA"), PyList(<<PyStr("AAPL"), PyStr("TSLA")>>)},
          start \in {None, PyInt(1577836800)} : QNew(symbols, start)
    \/ \E i \in DOMAIN pool, key \in QueryKeys : \E val \in QueryFieldVals(key) : QSet(i, key, val)
    \/ \E params \in BuildInputs : QBuild(params)

SpecQuery == InitQuery /\ [][NextQuery]_vars

\* The wire key of each optional field.
WireKey(f) ==
    CASE f = "key_category" -> "key_category"
      [] f = "start" -> "epoch_start"
      [] f = "end" -> "epoch_end"
      [] f = "limit" -> "limit_record_count"
      [] f = "limit_from_start" -> "limit_from_start"
      [] f = "functions" -> "functions"

\* C1: _build_query returns {requests: [...]} with one request per Params, in
\* input order; each has destination = the Params' bucket key and has the wire
\* key of an optional field exactly when the field is set at build time; a
\* present epoch_start/epoch_end is the whole seconds of the stored instant.
C1_RequestPerParams ==
    request # Nothing =>
        LET ps == IF request.params.t = "Params" THEN <<request.params>> ELSE request.params.items
        IN  /\ request.res.exc = ""
            /\ DOMAIN request.res.val = {"requests"}
            /\ Len(request.res.val.requests) = Len(ps)
            /\ \A i \in DOMAIN ps :
                 LET req == request.res.val.requests[i]
                     a == ps[i].attrs
                 IN  /\ req["destination"] = a["tbk"]
                     /\ DOMAIN req \subseteq {"destination"} \cup {WireKey(f) : f \in QueryKeys}
                     /\ \A f \in QueryKeys : WireKey(f) \in DOMAIN req <=> a[f] # None
                     /\ a["start"] # None => req["epoch_start"] = PyInt(a["start"].sec)
                     /\ a["end"] # None => req["epoch_end"] = PyInt(a["end"].sec)

-----------------------------------------------------------------------------
(* _build_data *)

MaxCols == 2        \* most columns of a record batch
MaxRows == 2        \* most rows of a record batch

\* A numpy dtype: dtype.str is byteorder followed by code.
DType(byteorder, code, itemsize) == [byteorder |-> byteorder, code |-> code, itemsize |-> itemsize]
Float32 == DType("<", "f4", 4)
Float64 == DType("<", "f8", 8)
Int32 == DType("<", "i4", 4)
Int64 == DType("<", "i8", 8)
UInt8 == DType("|", "u1", 1)
Int32BE == DType(">", "i4", 4)
DTypes == {Float32, Float64, Int32, Int64, UInt8, Int32BE}

\* data_type_conv: defined by the module and used nowhere in it.
data_type_conv == [k \in {"<f4", "<f8", "<i4", "<i8"} |->
                     CASE k = "<f4" -> "f" [] k = "<f8" -> "d" [] k = "<i4" -> "i" [] k = "<i8" -> "q"]

\* What a type would be if _build_data looked dtype.str up in data_type_conv.
TypeCodeConv(d) ==
    LET k == d.byteorder \o d.code
    IN  IF k \in DOMAIN data_type_conv THEN data_type_conv[k] ELSE "KeyError"

\* recarray.dtype[name].str.replace('<', ''): only the byte order character
\* of a dtype string can be '<'.
TypeCode(d) == (IF d.byteorder = "<" THEN "" ELSE d.byteorder) \o d.code

\* Byte k (from the least significant) of element value v; values are below 2^31.
ByteAt(v, k) == IF k >= 4 THEN 0 ELSE (v \div (256 ^ k)) % 256

\* The bytes of one element in memory, in the byte order of its dtype.
ElemBytes(v, d) ==
    [k \in 1..d.itemsize |->
        IF d.byteorder = ">" THEN ByteAt(v, d.itemsize - k) ELSE ByteAt(v, k - 1)]

RECURSIVE Flatten(_)
Flatten(chunks) == IF chunks = <<>> THEN <<>> ELSE Head(chunks) \o Flatten(Tail(chunks))

\* bytes(memoryview(recarray[name])), and bytes(buffer(recarray[name])) under
\* Python 2: the elements of the column, one after the other.
ColumnBytes(column, d) == Flatten([r \in DOMAIN column |-> ElemBytes(column[r], d)])

\* The reversed sequence.
Reverse(sq) == [i \in DOMAIN sq |-> sq[Len(sq) + 1 - i]]

\* data['data'] filled from the last column to the first.
DataBuffersReversed(arr) ==
    Reverse([c \in DOMAIN arr.names |-> ColumnBytes(arr.cols[c], arr.dtypes[c])])

\* data['data']: one buffer per name of recarray.dtype.names, in that order.
DataBuffers(arr) == [c \in DOMAIN arr.names |-> ColumnBytes(arr.cols[c], arr.dtypes[c])]

\* Client._build_data(recarray, tbk).  A plain (unstructured) array has
\* dtype.names = None, and iterating it raises.
BuildData(arr, tbk) ==
    IF ~arr.structured
    THEN Raise("TypeError", "'NoneType' object is not iterable")
    ELSE Ok([types |-> [c \in DOMAIN arr.names |-> TypeCode(arr.dtypes[c])],
             names |-> arr.names,
             data |-> DataBuffers(arr),
             length |-> arr.len,
             startindex |-> (tbk :> 0),
             lengths |-> (tbk :> arr.len)])

-----------------------------------------------------------------------------
(* SpecData: _build_data applied to every record batch of the bounds *)

ColNames == {"Epoch", "Ask", "Bid"}
RowSeeds == {1, 258}
BucketKeys == {"TSLA/1Min/OHLCV", "AAPL,TSLA/1D/TICK"}

\* A structured array: column c holds, in row r, the seed of the row plus c.
Structured(names, dtypes, seeds) ==
    [structured |-> TRUE, names |-> names, dtypes |-> dtypes, len |-> Len(seeds),
     cols |-> [c \in DOMAIN names |-> [r \in DOMAIN seeds |-> seeds[r] + c]]]

Plain(n) == [structured |-> FALSE, len |-> n]

RecArrays ==
    {Structured(names, dtypes, seeds) :
        names \in {q \in SeqsUpTo(ColNames, MaxCols) : NoRepeat(q)},
        dtypes \in SeqsUpTo(DTypes, MaxCols),
        seeds \in SeqsUpTo(RowSeeds, MaxRows)}

Batches == {a \in RecArrays : Len(a.names) = Len(a.dtypes)} \cup {Plain(n) : n \in 0..MaxRows}

\* data = Client._build_data(recarray, tbk)
DataBuild ==
    /\ payload = Nothing
    /\ payload' = BuildData(recarray, last.tbk)
    /\ UNCHANGED <<PY2, param, ctor, last, pool, nsets, request, recarray, endpoint, derived, wire>>

InitData ==
    /\ PY2 \in BOOLEAN
    /\ recarray \in Batches
    /\ \E tbk \in BucketKeys : last = [op |-> "_build_data", tbk |-> tbk]
    /\ payload = Nothing
    /\ IdleParams /\ IdleQuery /\ IdleClient

NextData == DataBuild

SpecData == InitData /\ [][NextData]_vars

Encoded == payload # Nothing /\ recarray.structured

\* The single-character wire code the claim gives each supported element type.
WireChar(d) ==
    CASE d = Float32 -> "f" [] d = Float64 -> "d" [] d = Int32 -> "i" [] d = Int64 -> "q"
      [] OTHER -> "unsupported"

DTypeCode(d) ==
    CASE d = Float32 -> "f4" [] d = Float64 -> "f8" [] d = Int32 -> "i4" [] d = Int64 -> "i8"
      [] d = UInt8 -> "|u1" [] d = Int32BE -> ">i4"

ElementSize(d) ==
    CASE d \in {Float32, Int32, Int32BE} -> 4 [] d \in {Float64, Int64} -> 8 [] d = UInt8 -> 1

\* The value the bytes of an element spell, read in the byte order of d.
ValueOf(bytes, d) ==
    LET at(k) == IF d.byteorder = ">" THEN bytes[Len(bytes) + 1 - k] ELSE bytes[k]
    IN  at(1) + (IF Len(bytes) >= 2 THEN 256 * at(2) ELSE 0)

\* C3: types, names and data have one entry per column, in the declared
\* column order, index i of each being column i; each data buffer holds
\* rowCount * elementSize bytes, the elements of that column; length is the
\* row count, startindex is {bucketKey: 0} and lengths is {bucketKey: rowCount}.
C3_ColumnsConsistent ==
    Encoded =>
        /\ payload.exc = ""
        /\ LET d == payload.val
               n == Len(recarray.names)
           IN  /\ Len(d.types) = n /\ Len(d.names) = n /\ Len(d.data) = n
               /\ \A c \in 1..n :
                    /\ d.names[c] = recarray.names[c]
                    /\ d.types[c] = DTypeCode(recarray.dtypes[c])
                    /\ Len(d.data[c]) = recarray.len * ElementSize(recarray.dtypes[c])
                    /\ \A r \in 1..recarray.len :
                         LET size == ElementSize(recarray.dtypes[c])
                             elem == SubSeq(d.data[c], (r - 1) * size + 1, r * size)
                         IN  ValueOf(elem, recarray.dtypes[c])
                               = recarray.cols[c][r] % (IF size = 1 THEN 256 ELSE 65536)
               /\ d.length = recarray.len
               /\ d.startindex = (last.tbk :> 0)
               /\ d.lengths = (last.tbk :> recarray.len)

\* A batch of two columns of different element sizes and two rows was encoded.
C3_Witness ==
    /\ Encoded /\ payload.exc = ""
    /\ recarray.names = <<"Ask", "Epoch">> /\ recarray.dtypes = <<Float64, Int32>>
    /\ recarray.len = 2
    /\ Len(payload.val.data[1]) = 16 /\ Len(payload.val.data[2]) = 8
    /\ payload.val.names = <<"Ask", "Epoch">>

-----------------------------------------------------------------------------
(* Client.stream.  A URL is the sequence of its characters. *)

HTTP == <<"h", "t", "t", "p">>
WS == <<"w", "s">>
RPC_PATH == <<"/", "r", "p", "c">>
WS_PATH == <<"/", "w", "s">>
NEWLINE == <<"\n">>

StartsWith(str, prefix) ==
    Len(str) >= Len(prefix) /\ SubSeq(str, 1, Len(prefix)) = prefix
EndsWith(str, suffix) ==
    Len(str) >= Len(suffix) /\ SubSeq(str, Len(str) - Len(suffix) + 1, Len(str)) = suffix
DropLast(str, n) == SubSeq(str, 1, Len(str) - n)
DropFirst(str, n) == SubSeq(str, n + 1, Len(str))

\* re.sub(r'/rpc$', '/ws', string): without re.MULTILINE '$' matches at the
\* end of the string and also just before a newline that ends the string.
SubRpc(string) ==
    IF EndsWith(string, RPC_PATH) THEN DropLast(string, Len(RPC_PATH)) \o WS_PATH
    ELSE IF EndsWith(string, RPC_PATH \o NEWLINE)
    THEN DropLast(string, Len(RPC_PATH) + 1) \o WS_PATH \o NEWLINE
    ELSE string

\* re.sub('^http', 'ws', string): '^' matches at the start of the string only.
SubHttp(string) ==
    IF StartsWith(string, HTTP) THEN WS \o DropFirst(string, Len(HTTP)) ELSE string

\* The endpoint Client.stream hands to StreamConn.
StreamEndpoint(rpcEndpoint) == SubHttp(SubRpc(rpcEndpoint))

\* Client(endpoint='http://localhost:5993/rpc')
DefaultEndpoint == <<"h", "t", "t", "p", ":", "/", "/", "l", "o", "c", "a", "l", "h", "o", "s", "t", ":", "5", "9", "9", "3", "/", "r", "p", "c">>

-----------------------------------------------------------------------------
(* SpecStream: stream() on clients of every endpoint made of these parts *)

Schemes == {HTTP, HTTP \o <<"s">>, WS, <<"x">> \o HTTP, <<>>}
Hosts == {<<":", "/", "/", "h">>, <<":", "/", "/", "h", "t", "t", "p">>, <<":", "/", "/", "h", "/", "r", "p", "c", "/", "v", "1">>}
Paths == {RPC_PATH, RPC_PATH \o NEWLINE, RPC_PATH \o <<"s">>, RPC_PATH \o <<"/">>,
          RPC_PATH \o RPC_PATH, <<>>}
Endpoints == {s \o h \o p : s \in Schemes, h \in Hosts, p \in Paths} \cup {DefaultEndpoint}

\* conn = client.stream()
Stream ==
    /\ derived' = StreamEndpoint(endpoint)
    /\ last' = [op |-> "stream", endpoint |-> endpoint]
    /\ UNCHANGED <<PY2, param, ctor, pool, nsets, request, recarray, payload, endpoint, wire>>

InitStream ==
    /\ PY2 = FALSE /\ last = Nothing
    /\ endpoint \in Endpoints /\ derived = Nothing /\ wire = <<>>
    /\ IdleParams /\ IdleQuery /\ IdleData

NextStream == Stream

SpecStream == InitStream /\ [][NextStream]_vars

\* The endpoint with a leading 'http' replaced by 'ws' and a trailing '/rpc'
\* replaced by '/ws', and nothing else changed.
AnchoredRewrite(url) ==
    LET n == Len(url)
        path == IF n >= 4 /\ SubSeq(url, n - 3, n) = RPC_PATH
                THEN SubSeq(url, 1, n - 4) \o WS_PATH ELSE url
    IN  IF Len(path) >= 4 /\ SubSeq(path, 1, 4) = HTTP
        THEN WS \o SubSeq(path, 5, Len(path)) ELSE path

\* C9: the stream endpoint is the RPC endpoint with only a leading 'http'
\* replaced by 'ws' and only a trailing '/rpc' replaced by '/ws'; an 'http'
\* elsewhere and a '/rpc' not at the end are left as they are; the default
\* endpoint gives ws://localhost:5993/ws; the client's endpoint is not changed.
C9_AnchoredRewrite ==
    derived # Nothing =>
        /\ derived = AnchoredRewrite(endpoint)
        /\ endpoint = last.endpoint

-----------------------------------------------------------------------------
(* The client operations.  The RPC call capability (self.rpc.call) and the  *)
(* HTTP probe (requests.head) belong to the environment: each operation is *)
(* given the outcome of the outbound call it may make, Ok(reply) or a      *)
(* raised exception, and yields the outbound calls and log records it      *)
(* made, in order, and what it returned or raised.                         *)

CallEvent(method, params) == [ev |-> "call", method |-> method, params |-> params]
HeadEvent(url) == [ev |-> "head", url |-> url]
LogEvent(exc) == [ev |-> "log", exc |-> exc]

\* The classes of requests.exceptions an exception class derives from.
Bases(cls) ==
    CASE cls = "ConnectTimeout" -> {"ConnectTimeout", "ConnectionError", "Timeout"}
      [] cls = "ReadTimeout" -> {"ReadTimeout", "Timeout"}
      [] OTHER -> {cls}

\* except <cls>: catches an exception of that class or of a subclass.
Catches(cls, res) == res.exc # "" /\ cls \in Bases(res.exc)

\* QueryReply(reply): the decoded reply, opaque here.
QueryReply(reply) == [t |-> "QueryReply", reply |-> reply]

\* _request that calls again when the call raised HTTPError.
RequestRetry(method, query, outcome) ==
    IF Catches("HTTPError", outcome)
    THEN [events |-> <<CallEvent(method, query), LogEvent(outcome),
                       CallEvent(method, query), LogEvent(outcome)>>,
          res |-> outcome]
    ELSE [events |-> <<CallEvent(method, query)>>, res |-> outcome]

\* Client._request(method, **query)
Request(method, query, outcome) ==
    IF Catches("HTTPError", outcome)
    THEN [events |-> <<CallEvent(method, query), LogEvent(outcome)>>, res |-> outcome]
    ELSE [events |-> <<CallEvent(method, query)>>, res |-> outcome]

\* Client.query(params)
ClientQuery(params, outcome, py2) ==
    LET query == BuildQuery(params, py2)
    IN  IF query.exc # "" THEN [events |-> <<>>, res |-> query]
        ELSE LET r == Request("DataService.Query", query.val, outcome)
             IN  [events |-> r.events,
                  res |-> IF r.res.exc = "" THEN Ok(QueryReply(r.res.val)) ELSE r.res]

WriteRequest(data, isvariablelength) ==
    [requests |-> <<[dataset |-> data, is_variable_length |-> isvariablelength]>>]

\* Client.write without its except clause.
ClientWriteRaw(arr, tbk, isvariablelength, outcome) ==
    LET data == BuildData(arr, tbk)
    IN  IF data.exc # "" THEN [events |-> <<>>, res |-> data]
        ELSE [events |-> <<CallEvent("DataService.Write", WriteRequest(data.val, isvariablelength))>>,
              res |-> outcome]

\* Client.write(recarray, tbk, isvariablelength)
ClientWrite(arr, tbk, isvariablelength, outcome) ==
    LET data == BuildData(arr, tbk)
    IN  IF data.exc # "" THEN [events |-> <<>>, res |-> data]
        ELSE [events |-> <<CallEvent("DataService.Write", WriteRequest(data.val, isvariablelength))>>,
              res |-> IF Catches("ConnectionError", outcome)
                      THEN Raise("ConnectionError", "Could not contact server")
                      ELSE outcome]

\* Client.list_symbols()
ClientListSymbols(outcome) ==
    LET r == Request("DataService.ListSymbols", EmptyDict, outcome)
    IN  [events |-> r.events,
         res |-> IF r.res.exc # "" THEN r.res
                 ELSE IF "Results" \in DOMAIN r.res.val THEN Ok(r.res.val["Results"])
                 ELSE Ok(<<>>)]

\* Client.destroy(tbk)
ClientDestroy(tbk, outcome) ==
    Request("DataService.Destroy", [requests |-> <<[key |-> tbk]>>], outcome)

\* Client.server_version(): outcome is that of requests.head, whose reply
\* is the response headers.
ClientServerVersion(url, outcome) ==
    [events |-> <<HeadEvent(url)>>,
     res |-> IF outcome.exc # "" THEN outcome
             ELSE IF "Marketstore-Version" \in DOMAIN outcome.val
             THEN Ok(PyStr(outcome.val["Marketstore-Version"]))
             ELSE Ok(None)]

-----------------------------------------------------------------------------
(* SpecClient: the public operations of one client, each with every outcome *)
(* of its outbound call                                                    *)

QueryOne == ParamsInit(PyStr("TSLA"), <<>>, "1Min", AttrGroup, None, None, None, None).val
QueryTwo == ParamsInit(PyList(<<PyStr("AAPL"), PyStr("TSLA")>>), <<>>, "1D", AttrGroup,
                       PyInt(1577836800), None, PyInt(5), PyBool(TRUE)).val
\* A Params whose limit int() rejects.
QueryBad == ParamsSet(QueryOne, "limit", PyStr("abc")).self

QueryInputs == {QueryOne, QueryBad, PyList(<<QueryOne, QueryTwo>>), PyList(<<QueryTwo, QueryBad>>)}

WriteInputs == {Structured(<<"Epoch", "Ask">>, <<Int64, Float32>>, <<1>>),
                Structured(<<"Epoch">>, <<UInt8>>, <<1, 258>>),
                Plain(1)}

Replies == {"Results" :> <<"AAPL", "TSLA">>, "Error" :> <<"no such bucket">>, EmptyDict}

Failures == {Raise("HTTPError", "500 Server Error"),
             Raise("ConnectionError", "Max retries exceeded with url: /rpc"),
             Raise("ConnectTimeout", "connect timed out"),
             Raise("ReadTimeout", "read timed out"),
             Raise("Exception", "rpc error")}

RpcOutcomes == {Ok(reply) : reply \in Replies} \cup Failures
HeadOutcomes == {Ok("Marketstore-Version" :> "v4.0.1"), Ok(EmptyDict)} \cup Failures

\* What no client operation changes.
clientRest == <<PY2, param, ctor, pool, nsets, request, recarray, payload, endpoint, derived>>

Call(op, args, outcome, r) == [op |-> op, args |-> args, outcome |-> outcome, res |-> r.res]

\* reply = client.query(params)
Query(params, outcome) ==
    LET r == ClientQuery(params, outcome, PY2)
    IN  /\ last' = Call("query", <<params>>, outcome, r)
        /\ wire' = r.events
        /\ UNCHANGED clientRest

\* client.write(recarray, tbk, isvariablelength)
Write(arr, tbk, isvariablelength, outcome) ==
    LET r == ClientWrite(arr, tbk, isvariablelength, outcome)
    IN  /\ last' = Call("write", <<arr, tbk, isvariablelength>>, outcome, r)
        /\ wire' = r.events
        /\ UNCHANGED clientRest

\* client.list_symbols()
ListSymbols(outcome) ==
    LET r == ClientListSymbols(outcome)
    IN  /\ last' = Call("list_symbols", <<>>, outcome, r)
        /\ wire' = r.events
        /\ UNCHANGED clientRest

\* client.destroy(tbk)
Destroy(tbk, outcome) ==
    LET r == ClientDestroy(tbk, outcome)
    IN  /\ last' = Call("destroy", <<tbk>>, outcome, r)
        /\ wire' = r.events
        /\ UNCHANGED clientRest

\* client.server_version()
ServerVersion(outcome) ==
    LET r == ClientServerVersion(endpoint, outcome)
    IN  /\ last' = Call("server_version", <<>>, outcome, r)
        /\ wire' = r.events
        /\ UNCHANGED clientRest

InitClient ==
    /\ PY2 \in BOOLEAN /\ last = Nothing
    /\ endpoint = DefaultEndpoint /\ derived = Nothing /\ wire = <<>>
    /\ IdleParams /\ IdleQuery /\ IdleData

NextClient ==
    \/ \E params \in QueryInputs, outcome \in RpcOutcomes : Query(params, outcome)
    \/ \E arr \in WriteInputs, tbk \in BucketKeys, isvariablelength \in BOOLEAN,
          outcome \in RpcOutcomes : Write(arr, tbk, isvariablelength, outcome)
    \/ \E outcome \in RpcOutcomes : ListSymbols(outcome)
    \/ \E tbk \in BucketKeys, outcome \in RpcOutcomes : Destroy(tbk, outcome)
    \/ \E outcome \in HeadOutcomes : ServerVersion(outcome)

SpecClient == InitClient /\ [][NextClient]_vars

Outbound == SelectSeq(wire, LAMBDA e : e.ev \in {"call", "head"})
Logged == SelectSeq(wire, LAMBDA e : e.ev = "log")
Called == last # Nothing /\ Outbound # <<>>

\* C7: when the RPC call made by write fails with a connection-level failure,
\* write raises a connection failure whose message is "Could not contact
\* server" and not the text of the transport's error; it returns no reply.
C7_WriteConnectionFailure ==
    Called /\ last.op = "write" /\ last.outcome.exc \in {"ConnectionError", "ConnectTimeout"}
        => /\ last.res.exc = "ConnectionError"
           /\ last.res.msg = "Could not contact server"
           /\ last.res.msg # last.outcome.msg

\* write made its call and the call failed to connect.
C7_Witness ==
    /\ Called /\ last.op = "write" /\ last.outcome.exc = "ConnectTimeout"
    /\ last.res = Raise("ConnectionError", "Could not contact server")

\* C8: in query, write, list_symbols and destroy a transport (HTTP) error
\* raised by the call is logged exactly once and raised again to the caller;
\* the operation does not return normally.
C8_TransportErrorLoggedOnce ==
    Called /\ last.op \in {"query", "write", "list_symbols", "destroy"}
           /\ last.outcome.exc = "HTTPError"
        => /\ Len(Logged) = 1
           /\ last.res = last.outcome

\* The exceptions building a request or a payload raises.
BuildErrors == {"ValueError", "TypeError"}

\* C10: every operation makes at most one outbound call, also when the call
\* fails; query and write make it only with the request or payload built in
\* full, and make none when building fails.
C10_AtMostOneCall ==
    last # Nothing =>
        /\ Len(Outbound) <= 1
        /\ last.res.exc \in BuildErrors => Outbound = <<>>
        /\ last.op = "query" /\ (last.args[1] = QueryBad \/
              (last.args[1].t = "list" /\ \E i \in DOMAIN last.args[1].items :
                                               last.args[1].items[i] = QueryBad))
              => Outbound = <<>> /\ last.res.exc = "ValueError"
        /\ last.op = "write" /\ ~last.args[1].structured
              => Outbound = <<>> /\ last.res.exc = "TypeError"
        /\ last.op = "query" /\ Called
              => LET reqs == Outbound[1].params.requests
                     given == IF last.args[1].t = "list" THEN last.args[1].items ELSE <<last.args[1]>>
                 IN  /\ Len(reqs) = Len(given)
                     /\ \A i \in DOMAIN given : reqs[i]["destination"] = given[i].attrs["tbk"]
        /\ last.op = "write" /\ Called
              => LET data == Outbound[1].params.requests[1].dataset
                 IN  /\ Len(data.data) = Len(last.args[1].names)
                     /\ Len(data.types) = Len(last.args[1].names)
                     /\ data.length = last.args[1].len
        /\ last.op \in {"list_symbols", "destroy", "server_version"} => Len(Outbound) = 1

\* query made its one call, the call raised a transport error, and query
\* did not call again.
C10_Witness ==
    /\ last # Nothing /\ last.op = "query" /\ last.outcome.exc = "HTTPError"
    /\ Len(Outbound) = 1 /\ last.res.exc = "HTTPError"

====
